---- MODULE Spec2Model ----
(***************************************************************************)
(* Model of the Model 100 BASIC tools: the packer (src/src/pack_basic.py)  *)
(* and the tokenizer (src/src/tokenize_basic.py).                          *)
(*                                                                         *)
(* A Python str is modelled as a sequence of one-character strings, a      *)
(* bytes object as a sequence of integers 0..255.  Python's 0-based index  *)
(* i is the model's i+1.                                                   *)
(***************************************************************************)
EXTENDS Integers, Sequences, FiniteSets, TLC

----------------------------------------------------------------------------
(* Characters and the str methods the programs use.                        *)

DQ == "\""
SQ == "'"
BS == "\\"
TAB == "\t"
\* a character whose ord() is above 255 (the Greek small pi, U+03C0)
WideChar == "U+03C0"
\* Python's None as a line label: no label read by \d+ is negative
NoneTag == -1

LowerLetters == <<"a","b","c","d","e","f","g","h","i","j","k","l","m",
                  "n","o","p","q","r","s","t","u","v","w","x","y","z">>
UpperLetters == <<"A","B","C","D","E","F","G","H","I","J","K","L","M",
                  "N","O","P","Q","R","S","T","U","V","W","X","Y","Z">>
DigitChars == <<"0","1","2","3","4","5","6","7","8","9">>

Range(s) == {s[k] : k \in DOMAIN s}

UpperOfChar == [c \in Range(LowerLetters) |->
                  UpperLetters[CHOOSE k \in DOMAIN LowerLetters : LowerLetters[k] = c]]

\* str.upper(), one character
UpperChar(c) == IF c \in DOMAIN UpperOfChar THEN UpperOfChar[c] ELSE c

\* str.upper()
Upper(s) == [k \in DOMAIN s |-> UpperChar(s[k])]

\* str.isdigit(), one character
IsDigit(c) == c \in Range(DigitChars)

\* str.isalpha(), one character
IsAlpha(c) == c \in Range(LowerLetters) \cup Range(UpperLetters)

\* the characters str.strip()/rstrip() remove
IsWhite(c) == c \in {" ", TAB}

\* s[i:] with Python's 0-based i (clamped like a slice)
From(s, i) == IF i >= Len(s) THEN <<>> ELSE SubSeq(s, i + 1, Len(s))

\* s[:n]
Take(s, n) == IF n >= Len(s) THEN s ELSE SubSeq(s, 1, n)

\* s.startswith(p)
StartsWith(s, p) == Len(p) <= Len(s) /\ \A k \in 1..Len(p) : s[k] = p[k]

\* s[i:].startswith(p)
StartsWithAt(s, i, p) ==
    i + Len(p) <= Len(s) /\ \A k \in 1..Len(p) : s[i + k] = p[k]

RECURSIVE RStrip(_)
RStrip(s) ==
    IF s # <<>> /\ IsWhite(s[Len(s)]) THEN RStrip(SubSeq(s, 1, Len(s) - 1)) ELSE s

RECURSIVE LStripWith(_, _)
LStripWith(s, set) ==
    IF s # <<>> /\ s[1] \in set THEN LStripWith(Tail(s), set) ELSE s

\* s.lstrip(' ')
LStripSpaces(s) == LStripWith(s, {" "})

\* s.strip()
Strip(s) == LStripWith(RStrip(s), {" ", TAB})

DigitVal(c) == (CHOOSE k \in DOMAIN DigitChars : DigitChars[k] = c) - 1

\* int(s) for a non-empty run of decimal digits
RECURSIVE ParseInt(_)
ParseInt(s) ==
    IF s = <<>> THEN 0
    ELSE 10 * ParseInt(SubSeq(s, 1, Len(s) - 1)) + DigitVal(s[Len(s)])

\* str(n) for n >= 0
RECURSIVE IntToStr(_)
IntToStr(n) ==
    IF n < 10 THEN <<DigitChars[n + 1]>>
    ELSE Append(IntToStr(n \div 10), DigitChars[(n % 10) + 1])

RECURSIVE Concat(_)
Concat(ss) == IF ss = <<>> THEN <<>> ELSE Head(ss) \o Concat(Tail(ss))

kwGOTO == <<"G","O","T","O">>
kwGOSUB == <<"G","O","S","U","B">>
kwTHEN == <<"T","H","E","N">>
kwELSE == <<"E","L","S","E">>
kwIF == <<"I","F">>
kwAND == <<"A","N","D">>
kwOR == <<"O","R">>
kwDATA == <<"D","A","T","A">>
kwPRINT == <<"P","R","I","N","T">>
kwRETURN == <<"R","E","T","U","R","N">>
kwEND == <<"E","N","D">>
kwSTOP == <<"S","T","O","P">>
kwCHR == <<"C","H","R","$">>
kwSTRING == <<"S","T","R","I","N","G","$">>

----------------------------------------------------------------------------
(* The packer's scanner: remove_comment, pack_spaces,                      *)
(* remove_print_semicolons, remove_trailing_quote.                         *)

\* the backtracking loop of remove_comment: drop the ' ' run and one ':'
RECURSIVE DropColonBeforeComment(_)
DropColonBeforeComment(result) ==
    IF result # <<>> /\ result[Len(result)] \in {" ", ":"}
    THEN IF result[Len(result)] = ":"
         THEN SubSeq(result, 1, Len(result) - 1)
         ELSE DropColonBeforeComment(SubSeq(result, 1, Len(result) - 1))
    ELSE result

RECURSIVE RemoveCommentLoop(_, _, _, _)
RemoveCommentLoop(line, i, in_string, result) ==
    IF i >= Len(line) THEN result
    ELSE LET char == line[i + 1] IN
         IF char = DQ
         THEN RemoveCommentLoop(line, i + 1, ~in_string, Append(result, char))
         ELSE IF char = SQ /\ ~in_string
         THEN DropColonBeforeComment(result)
         ELSE RemoveCommentLoop(line, i + 1, in_string, Append(result, char))

remove_comment(line) == RStrip(RemoveCommentLoop(line, 0, FALSE, <<>>))

RECURSIVE PackSpacesLoop(_, _, _, _)
PackSpacesLoop(line, i, in_string, result) ==
    IF i >= Len(line) THEN result
    ELSE LET char == line[i + 1] IN
         IF char = DQ
         THEN PackSpacesLoop(line, i + 1, ~in_string, Append(result, char))
         ELSE IF in_string
         THEN PackSpacesLoop(line, i + 1, in_string, Append(result, char))
         ELSE IF char = " "
         THEN LET remaining == LStripSpaces(From(line, i + 1)) IN
              IF remaining = <<>>
              THEN PackSpacesLoop(line, i + 1, in_string, result)
              ELSE IF StartsWith(Upper(remaining), kwAND)
                      \/ StartsWith(Upper(remaining), kwOR)
              THEN IF result = <<>> \/ result[Len(result)] # " "
                   THEN PackSpacesLoop(line, i + 1, in_string, Append(result, " "))
                   ELSE PackSpacesLoop(line, i + 1, in_string, result)
              ELSE PackSpacesLoop(line, i + 1, in_string, result)
         ELSE PackSpacesLoop(line, i + 1, in_string, Append(result, char))

pack_spaces(line) ==
    LET packed == PackSpacesLoop(line, 0, FALSE, <<>>) IN
    IF StartsWith(Upper(packed), kwDATA) /\ Len(packed) > 4 /\ packed[5] # " "
    THEN kwDATA \o <<" ">> \o From(packed, 4)
    ELSE packed

\* the index of the first non-space character at or after j (0-based)
RECURSIVE SkipSpaces(_, _)
SkipSpaces(line, j) ==
    IF j < Len(line) /\ line[j + 1] = " " THEN SkipSpaces(line, j + 1) ELSE j

\* whether the semicolon at i is dropped (lines 215-228), given result so far
DropSemicolon(line, j, result) ==
    LET result_str == RStrip(result)
        next_upper == Upper(From(line, j))
    IN  /\ result_str # <<>>
        /\ result_str[Len(result_str)] \in {")", DQ}
        /\ \/ StartsWith(next_upper, kwCHR)
           \/ StartsWith(next_upper, kwSTRING)
           \/ StartsWith(next_upper, <<DQ>>)
           \/ (IsAlpha(next_upper[1]) /\ ~StartsWith(next_upper, kwELSE))

RECURSIVE PrintSemiLoop(_, _, _, _, _)
PrintSemiLoop(line, i, in_string, in_print, result) ==
    IF i >= Len(line) THEN result
    ELSE LET char == line[i + 1] IN
         IF char = DQ
         THEN PrintSemiLoop(line, i + 1, ~in_string, in_print, Append(result, char))
         ELSE IF in_string
         THEN PrintSemiLoop(line, i + 1, in_string, in_print, Append(result, char))
         ELSE IF StartsWithAt(Upper(line), i, kwPRINT)
         THEN PrintSemiLoop(line, i + 5, in_string, TRUE,
                            result \o SubSeq(line, i + 1, i + 5))
         ELSE IF in_print /\ char = ":"
         THEN PrintSemiLoop(line, i + 1, in_string, FALSE, Append(result, char))
         ELSE IF in_print /\ char = ";"
         THEN LET j == SkipSpaces(line, i + 1) IN
              IF j >= Len(line) \/ line[j + 1] = ":"
              THEN PrintSemiLoop(line, i + 1, in_string, in_print, Append(result, char))
              ELSE IF DropSemicolon(line, j, result)
              THEN PrintSemiLoop(line, i + 1, in_string, in_print, result)
              ELSE PrintSemiLoop(line, i + 1, in_string, in_print, Append(result, char))
         ELSE PrintSemiLoop(line, i + 1, in_string, in_print, Append(result, char))

remove_print_semicolons(line) == PrintSemiLoop(line, 0, FALSE, FALSE, <<>>)

\* in_string after the loop of remove_trailing_quote (lines 132-139)
RECURSIVE InStringAtEnd(_, _, _)
InStringAtEnd(line, i, in_string) ==
    IF i >= Len(line) THEN in_string
    ELSE InStringAtEnd(line, i + 1, IF line[i + 1] = DQ THEN ~in_string ELSE in_string)

\* remove_trailing_quote without the test of in_string (line 142)
remove_trailing_quote_AnyQuote(line) ==
    IF line = <<>> THEN line
    ELSE LET stripped == RStrip(line) IN
         IF stripped = <<>> \/ stripped[Len(stripped)] # DQ THEN line
         ELSE SubSeq(stripped, 1, Len(stripped) - 1)

remove_trailing_quote(line) ==
    IF line = <<>> THEN line
    ELSE LET stripped == RStrip(line) IN
         IF stripped = <<>> \/ stripped[Len(stripped)] # DQ THEN line
         ELSE IF ~InStringAtEnd(line, 0, FALSE)
         THEN SubSeq(stripped, 1, Len(stripped) - 1)
         ELSE line

----------------------------------------------------------------------------
(* Target finder, control-flow classifier and reference fixup.             *)

JumpKeywords == <<kwGOTO, kwGOSUB, kwTHEN, kwELSE>>

\* the first keyword of ['GOTO','GOSUB','THEN','ELSE'] that code[i:].upper()
\* starts with, or <<>> (the for/else of lines 289-306 and 507-511)
JumpKeywordAt(code, i) ==
    LET hits == {k \in DOMAIN JumpKeywords :
                    StartsWithAt(Upper(code), i, JumpKeywords[k])}
    IN  IF hits = {} THEN <<>>
        ELSE JumpKeywords[CHOOSE k \in hits : \A m \in hits : k <= m]

\* the index after the run of digits that starts at i
RECURSIVE DigitsEnd(_, _)
DigitsEnd(code, i) ==
    IF i < Len(code) /\ IsDigit(code[i + 1]) THEN DigitsEnd(code, i + 1) ELSE i

\* lines 294-303: the comma/space/tab separated numbers after a keyword
RECURSIVE TargetRun(_, _, _)
TargetRun(code, i, acc) ==
    IF i >= Len(code) THEN [i |-> i, targets |-> acc]
    ELSE IF IsDigit(code[i + 1])
    THEN LET e == DigitsEnd(code, i) IN
         TargetRun(code, e, acc \cup {ParseInt(SubSeq(code, i + 1, e))})
    ELSE IF code[i + 1] \in {",", " ", TAB}
    THEN TargetRun(code, i + 1, acc)
    ELSE [i |-> i, targets |-> acc]

RECURSIVE TargetsLoop(_, _, _, _)
TargetsLoop(code, i, in_string, acc) ==
    IF i >= Len(code) THEN acc
    ELSE IF code[i + 1] = DQ THEN TargetsLoop(code, i + 1, ~in_string, acc)
    ELSE IF in_string THEN TargetsLoop(code, i + 1, in_string, acc)
    ELSE LET kw == JumpKeywordAt(code, i) IN
         IF kw = <<>> THEN TargetsLoop(code, i + 1, in_string, acc)
         ELSE LET r == TargetRun(code, i + Len(kw), acc) IN
              TargetsLoop(code, r.i, in_string, r.targets)

\* the targets one line adds (the body of the for loop, lines 268-306)
LineTargets(code) == TargetsLoop(remove_comment(code), 0, FALSE, {})

find_line_targets(lns) == UNION {LineTargets(lns[k].code) : k \in DOMAIN lns}

\* lines 335-341: index of the last ':' outside strings, -1 when none
RECURSIVE LastColon(_, _, _, _)
LastColon(code, i, in_string, last) ==
    IF i >= Len(code) THEN last
    ELSE IF code[i + 1] = DQ THEN LastColon(code, i + 1, ~in_string, last)
    ELSE IF code[i + 1] = ":" /\ ~in_string THEN LastColon(code, i + 1, in_string, i)
    ELSE LastColon(code, i + 1, in_string, last)

\* lines 343-344
LastStatement(code) ==
    LET last_colon == LastColon(code, 0, FALSE, -1) IN
    IF last_colon >= 0 THEN Strip(From(code, last_colon + 1)) ELSE Strip(code)

\* EndsWithJump without the GOTO rule of lines 352-356
EndsWithJump_NoGoto(code) == Upper(LastStatement(code)) \in {kwRETURN, kwEND, kwSTOP}

\* lines 347-356, on the rstripped code
EndsWithJump(code) ==
    LET last_stmt == LastStatement(code) IN
    \/ Upper(last_stmt) \in {kwRETURN, kwEND, kwSTOP}
    \/ /\ StartsWith(Upper(last_stmt), kwGOTO)
       /\ LET rest == Strip(From(last_stmt, 4)) IN
          rest # <<>> /\ IsDigit(rest[1])

\* lines 373-381: the search for THEN from j; it shares in_string with the
\* outer loop and leaves it as the search left it
RECURSIVE ThenSearch(_, _, _)
ThenSearch(code, j, in_string) ==
    IF j >= Len(code) THEN [found |-> FALSE, in_string |-> in_string]
    ELSE IF code[j + 1] = DQ THEN ThenSearch(code, j + 1, ~in_string)
    ELSE IF ~in_string /\ StartsWithAt(Upper(code), j, kwTHEN)
    THEN [found |-> TRUE, in_string |-> in_string]
    ELSE ThenSearch(code, j + 1, in_string)

\* lines 361-384
RECURSIVE IfThenLoop(_, _, _)
IfThenLoop(code, i, in_string) ==
    IF i >= Len(code) THEN FALSE
    ELSE IF code[i + 1] = DQ THEN IfThenLoop(code, i + 1, ~in_string)
    ELSE IF ~in_string /\ StartsWithAt(Upper(code), i, kwIF)
    THEN LET r == ThenSearch(code, i + 2, in_string) IN
         r.found \/ IfThenLoop(code, i + 1, r.in_string)
    ELSE IfThenLoop(code, i + 1, in_string)

\* ends_with_control_flow without the IF...THEN rule of lines 358-382
ends_with_control_flow_NoIfRule(src) ==
    LET c == RStrip(src) IN c # <<>> /\ EndsWithJump(c)

ends_with_control_flow(src) ==
    LET c == RStrip(src) IN
    IF c = <<>> THEN FALSE
    ELSE EndsWithJump(c) \/ IfThenLoop(c, 0, FALSE)

\* the operands after a keyword, each looked up in line_map and the result
\* looked up again
RECURSIVE FixupRun_MapTwice(_, _, _, _)
FixupRun_MapTwice(code, i, line_map, result) ==
    IF i >= Len(code) THEN [i |-> i, result |-> result]
    ELSE IF IsDigit(code[i + 1])
    THEN LET e == DigitsEnd(code, i)
             old_line == ParseInt(SubSeq(code, i + 1, e))
             once == IF old_line \in DOMAIN line_map
                     THEN line_map[old_line] ELSE old_line
             new_line == IF once \in DOMAIN line_map THEN line_map[once] ELSE once
         IN  FixupRun_MapTwice(code, e, line_map, result \o IntToStr(new_line))
    ELSE IF code[i + 1] \in {",", " ", TAB}
    THEN FixupRun_MapTwice(code, i + 1, line_map, Append(result, code[i + 1]))
    ELSE [i |-> i, result |-> result]

\* lines 513-526: the operands after a keyword, each looked up in line_map
RECURSIVE FixupRun(_, _, _, _)
FixupRun(code, i, line_map, result) ==
    IF i >= Len(code) THEN [i |-> i, result |-> result]
    ELSE IF IsDigit(code[i + 1])
    THEN LET e == DigitsEnd(code, i)
             old_line == ParseInt(SubSeq(code, i + 1, e))
             new_line == IF old_line \in DOMAIN line_map
                         THEN line_map[old_line] ELSE old_line
         IN  FixupRun(code, e, line_map, result \o IntToStr(new_line))
    ELSE IF code[i + 1] \in {",", " ", TAB}
    THEN FixupRun(code, i + 1, line_map, Append(result, code[i + 1]))
    ELSE [i |-> i, result |-> result]

RECURSIVE FixupLoop(_, _, _, _, _)
FixupLoop(code, i, in_string, line_map, result) ==
    IF i >= Len(code) THEN result
    ELSE LET char == code[i + 1] IN
         IF char = DQ
         THEN FixupLoop(code, i + 1, ~in_string, line_map, Append(result, char))
         ELSE IF in_string
         THEN FixupLoop(code, i + 1, in_string, line_map, Append(result, char))
         ELSE LET kw == JumpKeywordAt(code, i) IN
              IF kw = <<>>
              THEN FixupLoop(code, i + 1, in_string, line_map, Append(result, char))
              ELSE LET r == FixupRun(code, i + Len(kw), line_map,
                                     result \o SubSeq(code, i + 1, i + Len(kw)))
                   IN  FixupLoop(code, r.i, in_string, line_map, r.result)

update_line_references(c, line_map) == FixupLoop(c, 0, FALSE, line_map, <<>>)

----------------------------------------------------------------------------
(* The tokenizer: TOKENS, tokenize_line, parse_line.                       *)

\* the characters chr(32)..chr(95), in order
PrintableLow ==
    <<" ","!",DQ,"#","$","%","&",SQ,"(",")","*","+",
      ",","-",".","/","0","1","2","3","4","5","6","7",
      "8","9",":",";","<","=",">","?","@","A","B","C",
      "D","E","F","G","H","I","J","K","L","M","N","O",
      "P","Q","R","S","T","U","V","W","X","Y","Z","[",
      BS,"]","^","_">>

\* the characters chr(97)..chr(126), in order
PrintableHigh ==
    <<"a","b","c","d","e","f","g","h","i","j","k","l",
      "m","n","o","p","q","r","s","t","u","v","w","x",
      "y","z","{","|","}","~">>

IndexIn(table, c) == CHOOSE k \in DOMAIN table : table[k] = c

\* ord(), for the tab and the printable characters modelled
OrdOfChar == [c \in Range(PrintableLow) \cup Range(PrintableHigh) |->
                IF c \in Range(PrintableLow) THEN 31 + IndexIn(PrintableLow, c)
                ELSE 96 + IndexIn(PrintableHigh, c)]

Ord(c) == IF c = TAB THEN 9 ELSE IF c = WideChar THEN 960 ELSE OrdOfChar[c]

\* the token table (lines 17-154)
TOKENS ==
    (<<"E","N","D">> :> 128) @@
    (<<"F","O","R">> :> 129) @@
    (<<"N","E","X","T">> :> 130) @@
    (<<"D","A","T","A">> :> 131) @@
    (<<"I","N","P","U","T">> :> 132) @@
    (<<"D","I","M">> :> 133) @@
    (<<"R","E","A","D">> :> 134) @@
    (<<"L","E","T">> :> 135) @@
    (<<"G","O","T","O">> :> 136) @@
    (<<"R","U","N">> :> 137) @@
    (<<"I","F">> :> 138) @@
    (<<"R","E","S","T","O","R","E">> :> 139) @@
    (<<"G","O","S","U","B">> :> 140) @@
    (<<"R","E","T","U","R","N">> :> 141) @@
    (<<"R","E","M">> :> 142) @@
    (<<"S","T","O","P">> :> 143) @@
    (<<"W","I","D","T","H">> :> 144) @@
    (<<"E","L","S","E">> :> 145) @@
    (<<"L","I","N","E">> :> 146) @@
    (<<"E","D","I","T">> :> 147) @@
    (<<"E","R","R","O","R">> :> 148) @@
    (<<"R","E","S","U","M","E">> :> 149) @@
    (<<"O","U","T">> :> 150) @@
    (<<"O","N">> :> 151) @@
    (<<"D","S","K","O","$">> :> 152) @@
    (<<"O","P","E","N">> :> 153) @@
    (<<"C","L","O","S","E">> :> 154) @@
    (<<"L","O","A","D">> :> 155) @@
    (<<"M","E","R","G","E">> :> 156) @@
    (<<"F","I","L","E","S">> :> 157) @@
    (<<"S","A","V","E">> :> 158) @@
    (<<"L","F","I","L","E","S">> :> 159) @@
    (<<"L","P","R","I","N","T">> :> 160) @@
    (<<"D","E","F">> :> 161) @@
    (<<"P","O","K","E">> :> 162) @@
    (<<"P","R","I","N","T">> :> 163) @@
    (<<"C","O","N","T">> :> 164) @@
    (<<"L","I","S","T">> :> 165) @@
    (<<"L","L","I","S","T">> :> 166) @@
    (<<"C","L","E","A","R">> :> 167) @@
    (<<"C","L","O","A","D">> :> 168) @@
    (<<"C","S","A","V","E">> :> 169) @@
    (<<"T","I","M","E","$">> :> 170) @@
    (<<"D","A","T","E","$">> :> 171) @@
    (<<"D","A","Y","$">> :> 172) @@
    (<<"C","O","M">> :> 173) @@
    (<<"M","D","M">> :> 174) @@
    (<<"K","E","Y">> :> 175) @@
    (<<"C","L","S">> :> 176) @@
    (<<"B","E","E","P">> :> 177) @@
    (<<"S","O","U","N","D">> :> 178) @@
    (<<"L","C","O","P","Y">> :> 179) @@
    (<<"P","S","E","T">> :> 180) @@
    (<<"P","R","E","S","E","T">> :> 181) @@
    (<<"M","O","T","O","R">> :> 182) @@
    (<<"M","A","X">> :> 183) @@
    (<<"P","O","W","E","R">> :> 184) @@
    (<<"C","A","L","L">> :> 185) @@
    (<<"M","E","N","U">> :> 186) @@
    (<<"I","P","L">> :> 187) @@
    (<<"N","A","M","E">> :> 188) @@
    (<<"K","I","L","L">> :> 189) @@
    (<<"S","C","R","E","E","N">> :> 190) @@
    (<<"N","E","W">> :> 191) @@
    (<<"T","A","B","(">> :> 192) @@
    (<<"T","O">> :> 193) @@
    (<<"U","S","I","N","G">> :> 194) @@
    (<<"V","A","R","P","T","R">> :> 195) @@
    (<<"E","R","L">> :> 196) @@
    (<<"E","R","R">> :> 197) @@
    (<<"S","T","R","I","N","G","$">> :> 198) @@
    (<<"I","N","S","T","R">> :> 199) @@
    (<<"D","S","K","I","$">> :> 200) @@
    (<<"I","N","K","E","Y","$">> :> 201) @@
    (<<"C","S","R","L","I","N">> :> 202) @@
    (<<"O","F","F">> :> 203) @@
    (<<"H","I","M","E","M">> :> 204) @@
    (<<"T","H","E","N">> :> 205) @@
    (<<"N","O","T">> :> 206) @@
    (<<"S","T","E","P">> :> 207) @@
    (<<"+">> :> 208) @@
    (<<"-">> :> 209) @@
    (<<"*">> :> 210) @@
    (<<"/">> :> 211) @@
    (<<"^">> :> 212) @@
    (<<"A","N","D">> :> 213) @@
    (<<"O","R">> :> 214) @@
    (<<"X","O","R">> :> 215) @@
    (<<"E","Q","V">> :> 216) @@
    (<<"I","M","P">> :> 217) @@
    (<<"M","O","D">> :> 218) @@
    (<<BS>> :> 219) @@
    (<<">">> :> 220) @@
    (<<"=">> :> 221) @@
    (<<"<">> :> 222) @@
    (<<"S","G","N">> :> 223) @@
    (<<"I","N","T">> :> 224) @@
    (<<"A","B","S">> :> 225) @@
    (<<"F","R","E">> :> 226) @@
    (<<"I","N","P">> :> 227) @@
    (<<"L","P","O","S">> :> 228) @@
    (<<"P","O","S">> :> 229) @@
    (<<"S","Q","R">> :> 230) @@
    (<<"R","N","D">> :> 231) @@
    (<<"L","O","G">> :> 232) @@
    (<<"E","X","P">> :> 233) @@
    (<<"C","O","S">> :> 234) @@
    (<<"S","I","N">> :> 235) @@
    (<<"T","A","N">> :> 236) @@
    (<<"A","T","N">> :> 237) @@
    (<<"P","E","E","K">> :> 238) @@
    (<<"E","O","F">> :> 239) @@
    (<<"L","O","C">> :> 240) @@
    (<<"L","O","F">> :> 241) @@
    (<<"C","I","N","T">> :> 242) @@
    (<<"C","S","N","G">> :> 243) @@
    (<<"C","D","B","L">> :> 244) @@
    (<<"F","I","X">> :> 245) @@
    (<<"L","E","N">> :> 246) @@
    (<<"S","T","R","$">> :> 247) @@
    (<<"V","A","L">> :> 248) @@
    (<<"A","S","C">> :> 249) @@
    (<<"C","H","R","$">> :> 250) @@
    (<<"S","P","A","C","E","$">> :> 251) @@
    (<<"L","E","F","T","$">> :> 252) @@
    (<<"R","I","G","H","T","$">> :> 253) @@
    (<<"M","I","D","$">> :> 254) @@
    (<<SQ>> :> 255)

\* the keys of TOKENS
TokenWords == DOMAIN TOKENS

\* range(min(10, ...)): the longest candidate tried (line 198)
MaxKeywordLen == 10

\* the comment expansion without its colon
CommentBytes_NoColon == <<142, 255>>

\* the three bytes a comment marker expands to (lines 182-184)
CommentBytes == <<58, 142, 255>>

\* line 173: a quote that toggles the string state
TogglesString(ascii_code, i) ==
    ascii_code[i + 1] = DQ /\ (i = 0 \/ ascii_code[i] # BS)

\* lines 198-203: the first keyword_len, from the longest down, whose
\* upper-cased candidate is in TOKENS; 0 when none is
RECURSIVE MatchLenFrom(_, _, _)
MatchLenFrom(ascii_code, i, keyword_len) ==
    IF keyword_len = 0 THEN 0
    ELSE IF Upper(SubSeq(ascii_code, i + 1, i + keyword_len)) \in TokenWords
    THEN keyword_len
    ELSE MatchLenFrom(ascii_code, i, keyword_len - 1)

MatchLen(ascii_code, i) ==
    LET left == Len(ascii_code) - i IN
    MatchLenFrom(ascii_code, i, IF left < MaxKeywordLen THEN left ELSE MaxKeywordLen)

\* line 212: whether a colon is inserted before the ELSE token just appended
NeedsColon(tokenized) ==
    Len(tokenized) > 1 /\ tokenized[Len(tokenized) - 1] # 58

\* lines 204-214: tokenized after the match of upper_candidate. The trace t
\* is [bytes, origin]: origin[k] is the index (from 1) of the character of
\* ascii_code that bytes[k] was emitted for (history only).
EmitToken(t, upper_candidate, at) ==
    LET appended == Append(t.bytes, TOKENS[upper_candidate]) IN
    IF upper_candidate = kwELSE /\ NeedsColon(appended)
    THEN [bytes |-> t.bytes \o <<58, TOKENS[upper_candidate]>>,
          origin |-> t.origin \o <<at, at>>]
    ELSE [bytes |-> appended, origin |-> Append(t.origin, at)]

\* lines 171-221
RECURSIVE TokenizeLoop(_, _, _, _)
TokenizeLoop(ascii_code, i, in_string, t) ==
    IF i >= Len(ascii_code) THEN t
    ELSE LET char == ascii_code[i + 1]
             raw == [bytes |-> Append(t.bytes, Ord(char)),
                     origin |-> Append(t.origin, i + 1)]
         IN
         IF TogglesString(ascii_code, i)
         THEN TokenizeLoop(ascii_code, i + 1, ~in_string, raw)
         ELSE IF char = SQ /\ ~in_string
         THEN [bytes |-> t.bytes \o CommentBytes,
               origin |-> t.origin \o <<i + 1, i + 1, i + 1>>]
         ELSE IF in_string
         THEN TokenizeLoop(ascii_code, i + 1, in_string, raw)
         ELSE LET keyword_len == MatchLen(ascii_code, i) IN
              IF keyword_len > 0
              THEN TokenizeLoop(ascii_code, i + keyword_len, in_string,
                        EmitToken(t, Upper(SubSeq(ascii_code, i + 1, i + keyword_len)),
                                  i + 1))
              ELSE TokenizeLoop(ascii_code, i + 1, in_string, raw)

TokenizeTrace(ascii_code) ==
    TokenizeLoop(ascii_code, 0, FALSE, [bytes |-> <<>>, origin |-> <<>>])

tokenize_line(ascii_code) == TokenizeTrace(ascii_code).bytes

\* bytearray.append(ord(c)) raises ValueError when ord(c) is not in
\* range(0, 256) (lines 188, 220); the bytes appended so far are lost
TokenizeRaises(ascii_code) ==
    LET tokenized == tokenize_line(ascii_code) IN
    \E k \in DOMAIN tokenized : tokenized[k] > 255

\* line.split(' ', 1)[0]
RECURSIVE FirstField(_)
FirstField(line) ==
    IF line = <<>> \/ line[1] = " " THEN <<>>
    ELSE <<line[1]>> \o FirstField(Tail(line))

\* whether int(s) returns (no ValueError): s is a run of decimal digits. The
\* lines modelled hold no sign, underscore or tab.
IntAccepts(s) == s # <<>> /\ \A k \in DOMAIN s : IsDigit(s[k])

\* parse_line returning the number 0 where int() raises
parse_line_NoValueError(line) ==
    LET first == FirstField(line) IN
    [ok |-> TRUE,
     line_number |-> IF IntAccepts(first) THEN ParseInt(first) ELSE 0,
     code |-> From(line, Len(first) + 1)]

\* parse_line (lines 236-239); ok = FALSE is the ValueError of int()
parse_line(line) ==
    LET first == FirstField(line) IN
    IF IntAccepts(first)
    THEN [ok |-> TRUE, line_number |-> ParseInt(first),
          code |-> From(line, Len(first) + 1)]
    ELSE [ok |-> FALSE, line_number |-> 0, code |-> <<>>]

\* x & 0xFF (lines 297, 301)
LowByte(x) == x % 256

\* (x >> 8) & 0xFF (lines 298, 302)
HighByte(x) == (x \div 256) % 256

\* lines 296-308: one record
Record(next_address, line_number, tokenized_code) ==
    <<LowByte(next_address), HighByte(next_address),
      LowByte(line_number), HighByte(line_number)>> \o tokenized_code \o <<0>>

\* line_size without the terminator
LineSize_NoTerminator(tokenized_code) == 2 + 2 + Len(tokenized_code)

\* line 283
LineSize(tokenized_code) == 2 + 2 + Len(tokenized_code) + 1

\* lines 277-284: line_addresses and the final temp_address
RECURSIVE AddressLoop(_, _, _, _)
AddressLoop(tls, k, addrs, temp) ==
    IF k > Len(tls) THEN [line_addresses |-> addrs, temp_address |-> temp]
    ELSE AddressLoop(tls, k + 1, Append(addrs, temp),
                     temp + LineSize(tls[k].tokenized_code))

\* lines 263-273: tokenized_lines after one line of the file
ReadStep(tls, line) ==
    LET parsed == parse_line(line) IN
    IF Strip(line) = <<>> THEN tls
    ELSE IF ~parsed.ok \/ TokenizeRaises(parsed.code) THEN tls
    ELSE Append(tls, [line_number |-> parsed.line_number,
                      tokenized_code |-> tokenize_line(parsed.code)])

\* lines 289-308: output_data after the iteration i of the writing loop
WriteStep(out, tls, addrs, temp, i) ==
    LET next_address == IF i + 1 < Len(tls) THEN addrs[i + 2] ELSE temp IN
    out \o Record(next_address, tls[i + 1].line_number, tls[i + 1].tokenized_code)

RECURSIVE ReadLoop(_, _, _)
ReadLoop(file, k, tls) ==
    IF k > Len(file) THEN tls ELSE ReadLoop(file, k + 1, ReadStep(tls, file[k]))

RECURSIVE WriteLoop(_, _, _, _, _)
WriteLoop(out, tls, addrs, temp, i) ==
    IF i >= Len(tls) THEN out
    ELSE WriteLoop(WriteStep(out, tls, addrs, temp, i), tls, addrs, temp, i + 1)

\* the bytes create_tokenized_file writes for a file's lines (lines 258-312)
create_tokenized_file(file, base) ==
    LET tls == ReadLoop(file, 1, <<>>)
        r == AddressLoop(tls, 1, <<>>, base)
    IN WriteLoop(<<>>, tls, r.line_addresses, r.temp_address, 0)

----------------------------------------------------------------------------
(* Bounds and inputs of the packer.                                        *)

\* the longest program read
MaxLines == 3

\* the short length budget tried besides the default
ShortLineLength == 19

\* merge_lines(lines, targets, max_line_length=255)
DefaultMaxLineLength == 255

MaxLineLengths == {ShortLineLength, DefaultMaxLineLength}

\* the line labels a program may use, in increasing order
LineNumbers == {10 * k : k \in 1..MaxLines}

\* the statement texts a source line may carry
RawCodes ==
    { <<"G","O","T","O"," ","3","0">>,
      <<"A","=","1",":","R","E","T","U","R","N">>,
      <<"I","F"," ","A"," ","T","H","E","N"," ","2","0">>,
      <<"P","R","I","N","T"," ",DQ,"A">>,
      <<"P","R","I","N","T"," ",DQ,"I","F",":","E","N","D"," ","T","H","E","N",DQ>>,
      <<"D","A","T","A"," ","1",",","2">>,
      <<"B","=","2"," ",SQ,"G","O","T","O"," ","1","0">>,
      <<"O","N"," ","A"," ","G","O","S","U","B"," ","1","0",",","2","0">>,
      <<"A","=","1">>,
      <<SQ,"n","o","t","e">> }

\* the most fragments a line given to the scanner alone is built from
MaxScanFragments == 4

ScanFragments ==
    { <<DQ>>, <<SQ>>, <<" ">>, <<";">>, <<":">>, <<"A">>, <<")">>, kwPRINT }

\* the texts made of at most n fragments of frags
RECURSIVE Words(_, _)
Words(frags, n) ==
    IF n = 0 THEN {<<>>}
    ELSE LET shorter == Words(frags, n - 1) IN
         shorter \cup {w \o f : w \in shorter, f \in frags}

ScanInputs == Words(ScanFragments, MaxScanFragments)

----------------------------------------------------------------------------
(* The packer: parse_basic_file, merge_lines, pack_basic_file.             *)

VARIABLES
    scan_src,            \* a source line's code as read
    scan_code,           \* the local `code` of the loop of lines 544-548
    scan_pc,             \* the statement of that loop about to run
    pc,                  \* the statement of pack_basic_file about to run
    lines,               \* parse_basic_file's list of (line_num, code)
    packed,              \* the scanned lines (lines 543-548)
    targets,             \* find_line_targets(packed)
    max_line_length,     \* merge_lines' parameter
    pos,                 \* index of the next source line of merge_lines' loop
    merged,              \* merge_lines' result list
    current_start_line,  \* merge_lines' locals
    current_code,
    prevent_merge,
    line_map,            \* pack_basic_file's locals
    final_lines,
    output,              \* the lines written to output_file
    tl_code,             \* tokenize_line's argument ascii_code
    tl_bytes,            \* tokenize_line's return value
    tl_origin,           \* history: the character each returned byte is for
    tl_pc,               \* "call", "returned" or "raised"
    tk_pc,               \* the statement of create_tokenized_file about to run
    input_lines,         \* f.readlines(), each without its line end
    rd_pos,              \* index of the next line of the loop of line 262
    base_address,        \* create_tokenized_file's parameter
    tokenized_lines,     \* its locals
    line_addresses,
    temp_address,
    index,               \* the i of the loop of line 287
    output_data,
    file_bytes,          \* the bytes written to output_file
    fx_code,             \* update_line_references' arguments code, line_map
    fx_map,
    fx_out,              \* its return value
    fx_pc,               \* "call" or "returned"
    tq_line,             \* remove_trailing_quote's argument line
    tq_out,              \* its return value
    tq_pc                \* "call" or "returned"

packVars == <<pc, lines, packed, targets, max_line_length, pos, merged,
              current_start_line, current_code, prevent_merge, line_map,
              final_lines, output>>

scanVars == <<scan_src, scan_code, scan_pc>>

tlVars == <<tl_code, tl_bytes, tl_origin, tl_pc>>

tkVars == <<tk_pc, input_lines, rd_pos, base_address, tokenized_lines,
            line_addresses, temp_address, index, output_data, file_bytes>>

tokVars == <<tlVars, tkVars>>

fxVars == <<fx_code, fx_map, fx_out, fx_pc>>

tqVars == <<tq_line, tq_out, tq_pc>>

fnVars == <<fxVars, tqVars>>

vars == <<packVars, scanVars, tokVars, fnVars>>

\* update_line_references is not running
FixupIdle == fx_code = <<>> /\ fx_map = <<>> /\ fx_out = <<>> /\ fx_pc = "idle"

\* remove_trailing_quote is not running
QuoteIdle == tq_line = <<>> /\ tq_out = <<>> /\ tq_pc = "idle"

FnIdle == FixupIdle /\ QuoteIdle

\* base_address's default (line 243)
DefaultBaseAddress == 32769

\* tokenize_line is not running
TokenizeIdle ==
    /\ tl_code = <<>>
    /\ tl_bytes = <<>>
    /\ tl_origin = <<>>
    /\ tl_pc = "idle"

\* create_tokenized_file is not running
TokFileIdle ==
    /\ tk_pc = "idle"
    /\ input_lines = <<>>
    /\ rd_pos = 1
    /\ base_address = DefaultBaseAddress
    /\ tokenized_lines = <<>>
    /\ line_addresses = <<>>
    /\ temp_address = DefaultBaseAddress
    /\ index = 0
    /\ output_data = <<>>
    /\ file_bytes = <<>>

\* A merged entry is the tuple (start_line, code) of the source with, in
\* field src, the indices of the source lines whose code it carries
\* (history only: nothing reads it but the properties).
Entry(start, text, src) == [start |-> start, code |-> text, src |-> src]

\* lines 457-460 and 417-422: the separator written after a piece
Separator(prev_seg) == IF StartsWith(Upper(prev_seg), kwDATA) THEN <<" ", ":">> ELSE <<":">>

\* lines 410-423
Combined(cc) ==
    IF cc = <<>> THEN <<>>
    ELSE cc[1] \o Concat([k \in 1..(Len(cc) - 1) |-> Separator(cc[k]) \o cc[k + 1]])

\* lines 427 and 462
MaxCodeLength(start_line, maxlen) == maxlen - Len(IntToStr(start_line)) - 1

\* flush_current that, when the accumulation is too long, keeps its first
\* piece only
flush_current_DropRest(cc, start_line, maxlen) ==
    IF cc = <<>> THEN <<>>
    ELSE LET codes == [k \in DOMAIN cc |-> cc[k].code]
             combined == Combined(codes)
         IN  IF Len(combined) <= MaxCodeLength(start_line, maxlen)
             THEN <<Entry(start_line, combined, [k \in DOMAIN cc |-> cc[k].idx])>>
             ELSE <<Entry(start_line, cc[1].code, <<cc[1].idx>>)>>

\* flush_current: the entries it appends to merged. cc is a sequence of
\* [code, idx] pieces.
flush_current(cc, start_line, maxlen) ==
    IF cc = <<>> THEN <<>>
    ELSE LET codes == [k \in DOMAIN cc |-> cc[k].code]
             combined == Combined(codes)
         IN  IF Len(combined) <= MaxCodeLength(start_line, maxlen)
             THEN <<Entry(start_line, combined, [k \in DOMAIN cc |-> cc[k].idx])>>
             ELSE [k \in DOMAIN cc |->
                     Entry(IF k = 1 THEN start_line ELSE NoneTag,
                           cc[k].code, <<cc[k].idx>>)]

RECURSIVE SumLen(_)
SumLen(ss) == IF ss = <<>> THEN 0 ELSE Len(Head(ss)) + SumLen(Tail(ss))

\* line 461
TestCombinedLen(cc, c) ==
    LET codes == [k \in DOMAIN cc |-> cc[k].code]
        separator == IF cc # <<>> /\ StartsWith(Upper(codes[Len(cc)]), kwDATA)
                     THEN <<" ", ":">> ELSE <<":">>
    IN  SumLen(codes) + Len(separator) * Len(cc) + Len(c)

\* line 443
MustStartNewLine(line_num, tgts, prevent) == line_num \in tgts \/ prevent

\* lines 559-565
RECURSIVE LineMapLoop(_, _, _)
LineMapLoop(mg, new_line_num, lm) ==
    IF new_line_num > Len(mg) THEN lm
    ELSE LET old_line_num == mg[new_line_num].start IN
         LineMapLoop(mg, new_line_num + 1,
                     IF old_line_num # NoneTag /\ old_line_num \notin DOMAIN lm
                     THEN lm @@ (old_line_num :> new_line_num) ELSE lm)

\* the loop of lines 559-565 with new_line_num starting at 0
BuildLineMap_FromZero(mg) ==
    LET lm == LineMapLoop(mg, 1, <<>>) IN [old \in DOMAIN lm |-> lm[old] - 1]

BuildLineMap(mg) == LineMapLoop(mg, 1, <<>>)

\* line 573-576: the number a merged entry is written with
NewLineNum(old_line_num, lm, current_new_num) ==
    IF old_line_num # NoneTag THEN lm[old_line_num] ELSE current_new_num

\* lines 568-579
RECURSIVE FinalLinesLoop(_, _, _, _, _)
FinalLinesLoop(mg, k, current_new_num, lm, acc) ==
    IF k > Len(mg) THEN acc
    ELSE LET updated_code == update_line_references(mg[k].code, lm)
             new_line_num == NewLineNum(mg[k].start, lm, current_new_num)
         IN  FinalLinesLoop(mg, k + 1, new_line_num + 1, lm,
                            Append(acc, [num |-> new_line_num, code |-> updated_code]))

\* line 586
OutputLine(fl) == IntToStr(fl.num) \o <<" ">> \o remove_trailing_quote(fl.code)

\* lines 543-547
ScanLine(c) == remove_print_semicolons(pack_spaces(remove_comment(c)))

PackInit ==
    /\ pc = "parse"
    /\ lines = <<>>
    /\ packed = <<>>
    /\ targets = {}
    /\ max_line_length = DefaultMaxLineLength
    /\ pos = 1
    /\ merged = <<>>
    /\ current_start_line = NoneTag
    /\ current_code = <<>>
    /\ prevent_merge = FALSE
    /\ line_map = <<>>
    /\ final_lines = <<>>
    /\ output = <<>>

\* no line is being scanned on its own
ScanIdle == scan_src = <<>> /\ scan_code = <<>> /\ scan_pc = "idle"

Init == PackInit /\ ScanIdle /\ TokenizeIdle /\ TokFileIdle /\ FnIdle

\* parse_basic_file, one line of the file (lines 245-259)
ParseLine(line_num, c) ==
    /\ pc = "parse"
    /\ Len(lines) < MaxLines
    /\ IF lines = <<>> THEN TRUE ELSE line_num > lines[Len(lines)].num
    /\ LET code_stripped == Strip(c) IN
       lines' = IF code_stripped # <<>> /\ ~StartsWith(code_stripped, <<SQ>>)
                THEN Append(lines, [num |-> line_num, code |-> c])
                ELSE lines
    /\ UNCHANGED <<pc, packed, targets, max_line_length, pos, merged,
                   current_start_line, current_code, prevent_merge, line_map,
                   final_lines, output>>
    /\ UNCHANGED <<scanVars, tokVars, fnVars>>

\* lines 543-548
PackLines ==
    /\ pc = "parse"
    /\ packed' = [k \in DOMAIN lines |->
                    [num |-> lines[k].num, code |-> ScanLine(lines[k].code)]]
    /\ pc' = "targets"
    /\ UNCHANGED <<lines, targets, max_line_length, pos, merged,
                   current_start_line, current_code, prevent_merge, line_map,
                   final_lines, output>>
    /\ UNCHANGED <<scanVars, tokVars, fnVars>>

\* line 551
FindTargets ==
    /\ pc = "targets"
    /\ targets' = find_line_targets(packed)
    /\ pc' = "merge"
    /\ UNCHANGED <<lines, packed, max_line_length, pos, merged,
                   current_start_line, current_code, prevent_merge, line_map,
                   final_lines, output>>
    /\ UNCHANGED <<scanVars, tokVars, fnVars>>

\* the call of merge_lines and its lines 396-399
MergeBegin(maxlen) ==
    /\ pc = "merge"
    /\ max_line_length' = maxlen
    /\ merged' = <<>>
    /\ current_start_line' = NoneTag
    /\ current_code' = <<>>
    /\ prevent_merge' = FALSE
    /\ pos' = 1
    /\ pc' = "merging"
    /\ UNCHANGED <<lines, packed, targets, line_map, final_lines, output>>
    /\ UNCHANGED <<scanVars, tokVars, fnVars>>

\* one iteration of merge_lines' loop (lines 441-475)
MergeLine ==
    /\ pc = "merging"
    /\ pos <= Len(packed)
    /\ LET line_num == packed[pos].num
           c == packed[pos].code
           piece == [code |-> c, idx |-> pos]
       IN  /\ IF MustStartNewLine(line_num, targets, prevent_merge)
              THEN /\ merged' = IF current_start_line # NoneTag
                                THEN merged \o flush_current(current_code,
                                                   current_start_line, max_line_length)
                                ELSE merged
                   /\ current_start_line' = line_num
                   /\ current_code' = <<piece>>
              ELSE LET start == IF current_start_line = NoneTag
                                THEN line_num ELSE current_start_line
                   IN  IF TestCombinedLen(current_code, c)
                            <= MaxCodeLength(start, max_line_length)
                       THEN /\ merged' = merged
                            /\ current_start_line' = start
                            /\ current_code' = Append(current_code, piece)
                       ELSE /\ merged' = merged \o flush_current(current_code,
                                                       start, max_line_length)
                            /\ current_start_line' = line_num
                            /\ current_code' = <<piece>>
           /\ prevent_merge' = ends_with_control_flow(c)
    /\ pos' = pos + 1
    /\ UNCHANGED <<pc, lines, packed, targets, max_line_length, line_map,
                   final_lines, output>>
    /\ UNCHANGED <<scanVars, tokVars, fnVars>>

\* lines 477-481
MergeEnd ==
    /\ pc = "merging"
    /\ pos > Len(packed)
    /\ merged' = IF current_start_line # NoneTag
                 THEN merged \o flush_current(current_code, current_start_line,
                                              max_line_length)
                 ELSE merged
    /\ pc' = "renumber"
    /\ UNCHANGED <<lines, packed, targets, max_line_length, pos,
                   current_start_line, current_code, prevent_merge, line_map,
                   final_lines, output>>
    /\ UNCHANGED <<scanVars, tokVars, fnVars>>

\* lines 559-565
Renumber ==
    /\ pc = "renumber"
    /\ line_map' = BuildLineMap(merged)
    /\ pc' = "fixup"
    /\ UNCHANGED <<lines, packed, targets, max_line_length, pos, merged,
                   current_start_line, current_code, prevent_merge,
                   final_lines, output>>
    /\ UNCHANGED <<scanVars, tokVars, fnVars>>

\* lines 568-579
Fixup ==
    /\ pc = "fixup"
    /\ final_lines' = FinalLinesLoop(merged, 1, 1, line_map, <<>>)
    /\ pc' = "write"
    /\ UNCHANGED <<lines, packed, targets, max_line_length, pos, merged,
                   current_start_line, current_code, prevent_merge, line_map,
                   output>>
    /\ UNCHANGED <<scanVars, tokVars, fnVars>>

\* lines 582-586
WriteOutput ==
    /\ pc = "write"
    /\ output' = [k \in DOMAIN final_lines |-> OutputLine(final_lines[k])]
    /\ pc' = "done"
    /\ UNCHANGED <<lines, packed, targets, max_line_length, pos, merged,
                   current_start_line, current_code, prevent_merge, line_map,
                   final_lines>>
    /\ UNCHANGED <<scanVars, tokVars, fnVars>>

Next ==
    \/ \E line_num \in LineNumbers, c \in RawCodes : ParseLine(line_num, c)
    \/ PackLines
    \/ FindTargets
    \/ \E maxlen \in MaxLineLengths : MergeBegin(maxlen)
    \/ MergeLine
    \/ MergeEnd
    \/ Renumber
    \/ Fixup
    \/ WriteOutput

Spec == Init /\ [][Next]_vars

----------------------------------------------------------------------------
(* The scanner passes of lines 545-547 on one line, pass by pass.          *)

\* pack_basic_file is not running
PackIdle ==
    /\ pc = "idle"
    /\ lines = <<>>
    /\ packed = <<>>
    /\ targets = {}
    /\ max_line_length = DefaultMaxLineLength
    /\ pos = 1
    /\ merged = <<>>
    /\ current_start_line = NoneTag
    /\ current_code = <<>>
    /\ prevent_merge = FALSE
    /\ line_map = <<>>
    /\ final_lines = <<>>
    /\ output = <<>>

ScanInit ==
    /\ scan_src \in ScanInputs
    /\ scan_code = scan_src
    /\ scan_pc = "remove_comment"

\* line 545
RemoveComment ==
    /\ scan_pc = "remove_comment"
    /\ scan_code' = remove_comment(scan_code)
    /\ scan_pc' = "pack_spaces"
    /\ UNCHANGED <<scan_src, packVars, tokVars, fnVars>>

\* line 546
PackSpaces ==
    /\ scan_pc = "pack_spaces"
    /\ scan_code' = pack_spaces(scan_code)
    /\ scan_pc' = "remove_print_semicolons"
    /\ UNCHANGED <<scan_src, packVars, tokVars, fnVars>>

\* line 547
RemovePrintSemicolons ==
    /\ scan_pc = "remove_print_semicolons"
    /\ scan_code' = remove_print_semicolons(scan_code)
    /\ scan_pc' = "scanned"
    /\ UNCHANGED <<scan_src, packVars, tokVars, fnVars>>

ScanNext == RemoveComment \/ PackSpaces \/ RemovePrintSemicolons

ScanSpecInit == PackIdle /\ ScanInit /\ TokenizeIdle /\ TokFileIdle /\ FnIdle

SpecScan == ScanSpecInit /\ [][ScanNext]_vars

----------------------------------------------------------------------------
(* tokenize_line on one code string.                                       *)

\* the largest number of fragments an argument is built from
MaxTokFragments == 4

TokFragments == {<<DQ>>, <<SQ>>, <<BS>>, <<" ">>, <<":">>, <<"A">>, kwELSE, kwEND,
                 <<"I", "N", "P">>, <<"U", "T">>, <<"L">>, kwPRINT}

ExCommentSpaced == kwPRINT \o <<" ", "1", " ", SQ, "h", "i">>

ExCommentTight == kwPRINT \o <<" ", "1", SQ, "h", "i">>

ExIfElse == kwIF \o <<" ", "A", " ">> \o kwTHEN \o <<" ", "2", "0", " ">>
            \o kwELSE \o <<" ", "3", "0">>

ExWide == kwPRINT \o <<DQ, WideChar, DQ>>

ExLower == <<"p", "r", "i", "n", "t", " ", "a", "$", ":", "e", "l", "s", "e">>

ExGosub == <<"G", "o", "S", "u", "B", " ", "1", "0", "0">>

ExString == kwSTRING \o <<"(", "3", ",", DQ, "*", DQ, ")">>

ExError == <<"O", "N", " ", "E", "R", "R", "O", "R", " ">> \o kwGOTO \o <<" ", "9">>

TokExamples == {ExCommentSpaced, ExCommentTight, ExIfElse, ExWide, ExLower,
                ExGosub, ExString, ExError}

TokInputs == Words(TokFragments, MaxTokFragments) \cup TokExamples

TokenizeInit ==
    /\ tl_code \in TokInputs
    /\ tl_bytes = <<>>
    /\ tl_origin = <<>>
    /\ tl_pc = "call"

\* lines 167-223 when no append raises
TokenizeLine ==
    /\ tl_pc = "call"
    /\ ~TokenizeRaises(tl_code)
    /\ LET t == TokenizeTrace(tl_code) IN
         /\ tl_bytes' = t.bytes
         /\ tl_origin' = t.origin
    /\ tl_pc' = "returned"
    /\ UNCHANGED <<tl_code, tkVars, packVars, scanVars, fnVars>>

\* lines 167-223 when an append raises ValueError
TokenizeFails ==
    /\ tl_pc = "call"
    /\ TokenizeRaises(tl_code)
    /\ tl_pc' = "raised"
    /\ UNCHANGED <<tl_code, tl_bytes, tl_origin, tkVars, packVars, scanVars,
                   fnVars>>

TokenizeNext == TokenizeLine \/ TokenizeFails

TokenizeSpecInit == PackIdle /\ ScanIdle /\ TokenizeInit /\ TokFileIdle /\ FnIdle

SpecTokenize == TokenizeSpecInit /\ [][TokenizeNext]_vars

----------------------------------------------------------------------------
(* create_tokenized_file.                                                  *)

\* the largest number of lines of an input file
MaxFileLines == 3

\* the largest base address tried
MaxBaseAddress == 65530

BaseAddresses == {DefaultBaseAddress, MaxBaseAddress}

FileLineChoices ==
    { <<"1", "0", " ">> \o kwEND,
      <<"2", "0", " ", "A", "=", "1">>,
      <<"3", "0", "0", " ">> \o kwPRINT \o <<" ", DQ, "H", "I", DQ>>,
      <<"7">>,
      <<"8", "X">>,
      <<" ", "9", " ">> \o kwEND,
      <<" ", " ">>,
      <<"6", "5", "5", "4", "6", " ", "A">>,
      <<"4", "0", " ", WideChar>> }

InputFiles == UNION {[1..n -> FileLineChoices] : n \in 0..MaxFileLines}

TokFileInit ==
    /\ tk_pc = "read"
    /\ input_lines \in InputFiles
    /\ rd_pos = 1
    /\ base_address \in BaseAddresses
    /\ tokenized_lines = <<>>
    /\ line_addresses = <<>>
    /\ temp_address = base_address
    /\ index = 0
    /\ output_data = <<>>
    /\ file_bytes = <<>>

\* lines 262-273: one iteration of the reading loop
ReadLine ==
    /\ tk_pc = "read"
    /\ rd_pos <= Len(input_lines)
    /\ tokenized_lines' = ReadStep(tokenized_lines, input_lines[rd_pos])
    /\ rd_pos' = rd_pos + 1
    /\ UNCHANGED <<tk_pc, input_lines, base_address, line_addresses, temp_address,
                   index, output_data, file_bytes, tlVars, packVars, scanVars,
                   fnVars>>

\* lines 276-284
ComputeAddresses ==
    /\ tk_pc = "read"
    /\ rd_pos > Len(input_lines)
    /\ LET r == AddressLoop(tokenized_lines, 1, <<>>, base_address) IN
         /\ line_addresses' = r.line_addresses
         /\ temp_address' = r.temp_address
    /\ tk_pc' = "write"
    /\ UNCHANGED <<input_lines, rd_pos, base_address, tokenized_lines, index,
                   output_data, file_bytes, tlVars, packVars, scanVars, fnVars>>

\* lines 287-308: one iteration of the writing loop (index is i)
WriteRecord ==
    /\ tk_pc = "write"
    /\ index < Len(tokenized_lines)
    /\ output_data' = WriteStep(output_data, tokenized_lines, line_addresses,
                                temp_address, index)
    /\ index' = index + 1
    /\ UNCHANGED <<tk_pc, input_lines, rd_pos, base_address, tokenized_lines,
                   line_addresses, temp_address, file_bytes, tlVars, packVars,
                   scanVars, fnVars>>

\* lines 311-312
WriteFile ==
    /\ tk_pc = "write"
    /\ index = Len(tokenized_lines)
    /\ file_bytes' = output_data
    /\ tk_pc' = "done"
    /\ UNCHANGED <<input_lines, rd_pos, base_address, tokenized_lines,
                   line_addresses, temp_address, index, output_data, tlVars,
                   packVars, scanVars, fnVars>>

TokNext == ReadLine \/ ComputeAddresses \/ WriteRecord \/ WriteFile

TokSpecInit == PackIdle /\ ScanIdle /\ TokenizeIdle /\ TokFileInit /\ FnIdle

SpecTok == TokSpecInit /\ [][TokNext]_vars

----------------------------------------------------------------------------
(* update_line_references on one code text and one line map.               *)

\* the largest number of fragments a code text is built from
MaxFixFragments == 4

FixFragments == {kwGOTO, kwELSE, <<"1", "0">>, <<"2", "0">>, <<"0">>, <<DQ>>,
                 <<",">>, <<"A">>}

FixInputs == Words(FixFragments, MaxFixFragments)

\* line maps: none, one that maps onto its own keys, one that does not
LineMaps == {<<>>, (10 :> 20) @@ (20 :> 30), (10 :> 1) @@ (30 :> 2)}

FixupInit ==
    /\ fx_code \in FixInputs
    /\ fx_map \in LineMaps
    /\ fx_out = <<>>
    /\ fx_pc = "call"

\* lines 484-533
UpdateLineReferences ==
    /\ fx_pc = "call"
    /\ fx_out' = update_line_references(fx_code, fx_map)
    /\ fx_pc' = "returned"
    /\ UNCHANGED <<fx_code, fx_map, tqVars, packVars, scanVars, tokVars>>

FixupNext == UpdateLineReferences

FixupSpecInit ==
    PackIdle /\ ScanIdle /\ TokenizeIdle /\ TokFileIdle /\ FixupInit /\ QuoteIdle

SpecFixup == FixupSpecInit /\ [][FixupNext]_vars

----------------------------------------------------------------------------
(* remove_trailing_quote on one line.                                      *)

\* the largest number of fragments a line is built from
MaxQuoteFragments == 4

QuoteFragments == {<<DQ>>, <<" ">>, <<":">>, <<"A">>, kwPRINT}

QuoteInputs == Words(QuoteFragments, MaxQuoteFragments)

QuoteInit ==
    /\ tq_line \in QuoteInputs
    /\ tq_out = <<>>
    /\ tq_pc = "call"

\* lines 118-147
RemoveTrailingQuote ==
    /\ tq_pc = "call"
    /\ tq_out' = remove_trailing_quote(tq_line)
    /\ tq_pc' = "returned"
    /\ UNCHANGED <<tq_line, fxVars, packVars, scanVars, tokVars>>

QuoteNext == RemoveTrailingQuote

QuoteSpecInit ==
    PackIdle /\ ScanIdle /\ TokenizeIdle /\ TokFileIdle /\ FixupIdle /\ QuoteInit

SpecQuote == QuoteSpecInit /\ [][QuoteNext]_vars

----------------------------------------------------------------------------
(* What the claims speak of, stated on the text itself.                    *)

\* position p (from 1) of s lies outside every string literal
Outside(s, p) == Cardinality({q \in 1..(p - 1) : s[q] = DQ}) % 2 = 0

\* the keyword kw stands at position p of s, outside strings
KeywordAt(s, p, kw) == Outside(s, p) /\ StartsWithAt(Upper(s), p - 1, kw)

\* the text after the final colon outside strings
TextAfterLastColon(s) ==
    LET colons == {p \in 1..Len(s) : s[p] = ":" /\ Outside(s, p)} IN
    IF colons = {} THEN s
    ELSE From(s, CHOOSE p \in colons : \A q \in colons : q <= p)

\* the last statement is exactly RETURN, END or STOP, or GOTO and a digit
LastStatementJumps(s) ==
    LET last == TextAfterLastColon(s) IN
    \/ last \in {kwRETURN, kwEND, kwSTOP}
    \/ StartsWith(last, kwGOTO) /\ Len(last) > 4 /\ IsDigit(last[5])

\* s contains IF followed later by THEN, both outside strings
HasIfThen(s) ==
    \E p, q \in 1..Len(s) : p < q /\ KeywordAt(s, p, kwIF) /\ KeywordAt(s, q, kwTHEN)

\* the merged entry (its index) that carries source line k, 0 when not yet flushed
EntryOf(k) ==
    IF \E m \in DOMAIN merged : k \in Range(merged[m].src)
    THEN CHOOSE m \in DOMAIN merged : k \in Range(merged[m].src)
    ELSE 0

\* source line k + 1 was appended to the segment that carries source line k
JoinedToNext(k) ==
    \/ \E m \in DOMAIN merged : \E j \in 1..(Len(merged[m].src) - 1) :
          merged[m].src[j] = k /\ merged[m].src[j + 1] = k + 1
    \/ \E j \in 1..(Len(current_code) - 1) :
          current_code[j].idx = k /\ current_code[j + 1].idx = k + 1

\* source lines k and k + 1 are both merged, k + 1 opening a segment of its own
SplitAfter(k) ==
    /\ EntryOf(k) # 0
    /\ EntryOf(k + 1) = EntryOf(k) + 1
    /\ merged[EntryOf(k + 1)].src[1] = k + 1

(* C1: a source line whose last statement (after the final colon outside    *)
(* strings) is RETURN, END or STOP, or GOTO and a digit, never has the next *)
(* source line's code on its physical line, whatever the length budget.    *)
C1_NoMergeAfterJump ==
    \A k \in DOMAIN packed :
        LastStatementJumps(packed[k].code) => ~JoinedToNext(k)

\* reached: a jump-ended line followed by a line that is no target, under the
\* default budget, the two emitted as separate consecutive segments
C1_Witness ==
    /\ pc = "renumber"
    /\ max_line_length = DefaultMaxLineLength
    /\ \E k \in 1..(Len(packed) - 1) :
          /\ LastStatementJumps(packed[k].code)
          /\ ~HasIfThen(packed[k].code)
          /\ packed[k + 1].num \notin targets
          /\ SplitAfter(k)

(* C2: a source line whose code holds IF and a later THEN, both outside     *)
(* strings, never has the next source line's code on its physical line,    *)
(* for every max_line_length.                                              *)
C2_NoMergeAfterIfThen ==
    \A k \in DOMAIN packed :
        HasIfThen(packed[k].code) => ~JoinedToNext(k)

\* reached: an IF...THEN line followed by a line that is no target, under the
\* default budget, the two emitted as separate consecutive segments
C2_Witness ==
    /\ pc = "renumber"
    /\ max_line_length = DefaultMaxLineLength
    /\ \E k \in 1..(Len(packed) - 1) :
          /\ HasIfThen(packed[k].code)
          /\ ~LastStatementJumps(packed[k].code)
          /\ packed[k + 1].num \notin targets
          /\ SplitAfter(k)

\* the numbers that follow the jump keyword ending before position p: the
\* comma, space or tab separated run of decimal literals
RECURSIVE OperandRun(_, _)
OperandRun(s, p) ==
    IF p > Len(s) THEN [next |-> p, nums |-> <<>>]
    ELSE IF IsDigit(s[p])
    THEN LET e == DigitsEnd(s, p - 1)
             rest == OperandRun(s, e + 1)
         IN  [next |-> rest.next, nums |-> <<ParseInt(SubSeq(s, p, e))>> \o rest.nums]
    ELSE IF s[p] \in {",", " ", TAB} THEN OperandRun(s, p + 1)
    ELSE [next |-> p, nums |-> <<>>]

\* the GOTO/GOSUB/THEN/ELSE operands of s outside strings, in text order
RECURSIVE OperandsFrom(_, _)
OperandsFrom(s, p) ==
    IF p > Len(s) THEN <<>>
    ELSE LET kws == {k \in DOMAIN JumpKeywords : KeywordAt(s, p, JumpKeywords[k])} IN
         IF kws = {} THEN OperandsFrom(s, p + 1)
         ELSE LET kw == JumpKeywords[CHOOSE k \in kws : TRUE]
                  run == OperandRun(s, p + Len(kw))
              IN  run.nums \o OperandsFrom(s, run.next)

Operands(s) == OperandsFrom(s, 1)

\* the source line numbered n, 0 when the program has none
SourceIndex(n) ==
    IF \E k \in DOMAIN packed : packed[k].num = n
    THEN CHOOSE k \in DOMAIN packed : packed[k].num = n
    ELSE 0

\* the operands of the source lines a physical line was merged from
SourceOperands(m) ==
    Concat([j \in DOMAIN merged[m].src |-> Operands(packed[merged[m].src[j]].code)])

\* line n's code is the first piece of a physical line of its own, anchor n
IsAnchor(n) ==
    \E m \in DOMAIN merged : merged[m].src[1] = SourceIndex(n) /\ merged[m].start = n

\* the number written on the physical line that starts with source line n
NewNumberOf(n) ==
    final_lines[CHOOSE m \in DOMAIN merged : merged[m].src[1] = SourceIndex(n)].num

(* C3: target preservation. Every jump operand outside strings that names  *)
(* a source line N has (a) line N as the first piece of a physical line of  *)
(* its own and (b) in the written text, the new number of that line.       *)
C3_TargetPreserved ==
    pc = "done" =>
        \A m \in DOMAIN merged :
            LET src_ops == SourceOperands(m)
                out_ops == Operands(output[m])
            IN  \A j \in DOMAIN src_ops :
                    SourceIndex(src_ops[j]) # 0 =>
                        /\ IsAnchor(src_ops[j])
                        /\ j \in DOMAIN out_ops
                        /\ out_ops[j] = NewNumberOf(src_ops[j])

\* part (a) of C3 alone
C3_TargetIsAnchor ==
    pc = "done" =>
        \A k \in DOMAIN packed : \A j \in DOMAIN Operands(packed[k].code) :
            SourceIndex(Operands(packed[k].code)[j]) # 0
                => IsAnchor(Operands(packed[k].code)[j])

(* C4: with unique source line numbers the k-th physical line carries the   *)
(* number k, anchor-tagged or None-tagged, and line_map holds exactly one   *)
(* entry per anchor, its position, and none for a None-tagged segment.     *)
C4_SequentialNumbers ==
    pc \in {"write", "done"} =>
        /\ Len(final_lines) = Len(merged)
        /\ \A k \in DOMAIN final_lines : final_lines[k].num = k
        /\ pc = "done" =>
              \A k \in DOMAIN output : StartsWith(output[k], IntToStr(k) \o <<" ">>)
        /\ DOMAIN line_map = {merged[k].start : k \in DOMAIN merged} \ {NoneTag}
        /\ Cardinality(DOMAIN line_map)
             = Cardinality({k \in DOMAIN merged : merged[k].start # NoneTag})
        /\ \A k \in DOMAIN merged :
              merged[k].start # NoneTag => line_map[merged[k].start] = k

\* reached: an output of three lines, the first an anchor, the others None-tagged
C4_Witness ==
    /\ pc = "done"
    /\ Len(merged) >= 3
    /\ merged[1].start # NoneTag
    /\ \E k \in DOMAIN merged : merged[k].start = NoneTag /\ final_lines[k].num = k

\* the quotes of s and the characters inside its string literals, in order,
\* up to the comment that a ' outside strings starts
RECURSIVE QuotedText(_, _, _)
QuotedText(s, p, inside) ==
    IF p > Len(s) THEN <<>>
    ELSE IF s[p] = DQ THEN <<DQ>> \o QuotedText(s, p + 1, ~inside)
    ELSE IF inside THEN <<s[p]>> \o QuotedText(s, p + 1, inside)
    ELSE IF s[p] = SQ THEN <<>>
    ELSE QuotedText(s, p + 1, inside)

(* C7: string-literal opacity of the scanner. After remove_comment,         *)
(* pack_spaces and remove_print_semicolons every character between an      *)
(* opening quote and its closing quote (or the end of the line) is          *)
(* unchanged and in place.                                                 *)
C7_LiteralsUntouched ==
    scan_pc = "scanned" => QuotedText(scan_code, 1, FALSE) = QuotedText(scan_src, 1, FALSE)

----------------------------------------------------------------------------
(* The tokenizer's claims.                                                 *)

\* the byte at k is the ELSE token emitted for an ELSE keyword of tl_code
ElseTokenAt(k) ==
    tl_bytes[k] = 145 /\ StartsWithAt(Upper(tl_code), tl_origin[k] - 1, kwELSE)

(* C5: ELSE colon invariant. Every ELSE token byte (0x91) that               *)
(* tokenize_line returns for an ELSE keyword matched outside a string is    *)
(* immediately preceded in the returned bytes by a colon (0x3A).            *)
C5_ElseAfterColon ==
    tl_pc = "returned" =>
        \A k \in DOMAIN tl_bytes : ElseTokenAt(k) => k > 1 /\ tl_bytes[k - 1] = 58

\* the 16-bit little-endian field at the 0-based offset off of bytes
Word(bytes, off) == bytes[off + 1] + 256 * bytes[off + 2]

\* the size of the first i records: the sum over k <= i of 5 + p_k
RECURSIVE SizeUpTo(_, _)
SizeUpTo(tls, i) ==
    IF i = 0 THEN 0 ELSE SizeUpTo(tls, i - 1) + 5 + Len(tls[i].tokenized_code)

\* a value as a field holds it: exactly, or its low 16 bits
Held(x, wrap) == IF wrap THEN x % 65536 ELSE x

\* the records read by walking bytes from the offset off, the record there
\* standing at the address addr: each record ends where its successor
\* address says the next begins
RECURSIVE Walk(_, _, _, _)
Walk(bytes, off, addr, wrap) ==
    IF off >= Len(bytes) THEN <<>>
    ELSE IF off + 5 > Len(bytes) THEN <<"short">>
    ELSE LET next == Word(bytes, off)
             size == Held(next - addr, wrap)
         IN IF size < 5 \/ off + size > Len(bytes) THEN <<"lost">>
            ELSE <<[line_number |-> Word(bytes, off + 2),
                    tokenized_code |-> SubSeq(bytes, off + 5, off + size - 1),
                    terminator |-> bytes[off + size]]>>
                 \o Walk(bytes, off + size, next, wrap)

\* the encoding of C6, the fields holding their values exactly (wrap FALSE)
\* or modulo 2^16 (wrap TRUE)
Encoded(wrap) ==
    LET n == Len(tokenized_lines) IN
    /\ Len(file_bytes) = SizeUpTo(tokenized_lines, n)
    /\ \A i \in 1..n :
          LET off == SizeUpTo(tokenized_lines, i - 1)
              p == Len(tokenized_lines[i].tokenized_code)
          IN /\ Word(file_bytes, off) =
                    Held(base_address + SizeUpTo(tokenized_lines, i), wrap)
             /\ Word(file_bytes, off + 2) =
                    Held(tokenized_lines[i].line_number, wrap)
             /\ SubSeq(file_bytes, off + 5, off + 4 + p) =
                    tokenized_lines[i].tokenized_code
             /\ file_bytes[off + 5 + p] = 0
    /\ n > 0 => Word(file_bytes, SizeUpTo(tokenized_lines, n - 1)) =
                    Held(base_address + Len(file_bytes), wrap)
    /\ Walk(file_bytes, 0, Held(base_address, wrap), wrap) =
          [i \in 1..n |->
              [line_number |-> Held(tokenized_lines[i].line_number, wrap),
               tokenized_code |-> tokenized_lines[i].tokenized_code,
               terminator |-> 0]]

(* C6: binary encoding, as stated. The output file is the concatenation in  *)
(* order of the records [next_i][number_i][payload_i][0x00], nothing before *)
(* or after, with next_i = B + the sum over k <= i of (5 + p_k); the last   *)
(* successor address is B plus the output length, and walking the output    *)
(* with these addresses reproduces every number and payload.                *)
C6_EncodingExact == tk_pc = "done" => Encoded(FALSE)

(* C6 amended: the same with each 16-bit field holding its value modulo     *)
(* 2^16: next_i = (B + the sum over k <= i of (5 + p_k)) mod 65536 and the  *)
(* number field is number_i mod 65536.                                      *)
C6_EncodingMod16 == tk_pc = "done" => Encoded(TRUE)

C6_Witness ==
    /\ tk_pc = "done"
    /\ Len(tokenized_lines) = 3
    /\ Len(tokenized_lines[1].tokenized_code) # Len(tokenized_lines[3].tokenized_code)
    /\ base_address + SizeUpTo(tokenized_lines, 1) < 65536
    /\ base_address + SizeUpTo(tokenized_lines, 2) >= 65536

\* the character at p of s lies inside a string literal, a double quote
\* opening or closing one wherever it stands (the packer's count) and the
\* text from a ' outside a literal on being a comment
InsideLiteral(s, p) ==
    /\ s[p] # DQ
    /\ ~Outside(s, p)
    /\ \A q \in 1..(p - 1) : s[q] = SQ => ~Outside(s, q)

\* the returned bytes emitted for the character at p
BytesFor(p) == {k \in DOMAIN tl_bytes : tl_origin[k] = p}

(* C8: string-literal opacity of the tokenizer. Every character inside a    *)
(* string literal, each double quote opening or closing a literal as the    *)
(* packer's scanner counts them, is returned as its raw ASCII byte: one     *)
(* byte, the character's code, never a token and never the comment          *)
(* expansion or the end of the line.                                        *)
C8_LiteralsRaw ==
    tl_pc = "returned" =>
        \A p \in DOMAIN tl_code :
            InsideLiteral(tl_code, p) =>
                \E k \in DOMAIN tl_bytes :
                    BytesFor(p) = {k} /\ tl_bytes[k] = Ord(tl_code[p])

\* in_string after the first n characters of s, a double quote toggling it
\* unless a backslash stands before it
InStringAfter(s, n) ==
    Cardinality({q \in 1..n : s[q] = DQ /\ (q = 1 \/ s[q - 1] # BS)}) % 2 = 1

\* c holds no ' outside a string and ends outside a string
CommentPrefix(c) ==
    /\ ~InStringAfter(c, Len(c))
    /\ \A q \in DOMAIN c : c[q] = SQ => InStringAfter(c, q - 1)

\* tokenize_line(c + "'" + t) is tokenize_line(c) and 0x3A 0x8E 0xFF
C9_MarkerExpansion ==
    \A p \in DOMAIN tl_code :
        (tl_code[p] = SQ /\ CommentPrefix(Take(tl_code, p - 1))) =>
            tl_bytes = tokenize_line(Take(tl_code, p - 1)) \o <<58, 142, 255>>

\* the returned bytes before the three of the comment marker
CodePortion(bytes) == SubSeq(bytes, 1, Len(bytes) - 3)

Without(file, j) == SubSeq(file, 1, j - 1) \o SubSeq(file, j + 1, Len(file))

\* a number, a space, a text
HasShape(line) ==
    IntAccepts(FirstField(line)) /\ Len(line) > Len(FirstField(line))

\* the output is what the file without its line j gives
NoTraceOf(j) ==
    file_bytes = create_tokenized_file(Without(input_lines, j), base_address)

(* C10: malformed-line recovery, as stated. A line that fails the           *)
(* <number><space><text> shape is skipped: it contributes no record and     *)
(* every other line's record is what the file without that line produces.   *)
C10_ShapelessSkipped ==
    tk_pc = "done" =>
        \A j \in DOMAIN input_lines : ~HasShape(input_lines[j]) => NoTraceOf(j)

\* the lines that are read into a record: the text before the first space
\* is a number and no character of the line is above U+00FF
Kept(line) == IntAccepts(FirstField(line)) /\ WideChar \notin Range(line)

(* C10 amended: a line the text before whose first space is not a number    *)
(* is skipped: it contributes no record and every other line's record is    *)
(* what the file without that line produces. A line that is a number alone  *)
(* (`7`) is not skipped: it gives a record with an empty payload. There is  *)
(* one record per line that starts with a number, the lines with a          *)
(* character above U+00FF excepted.                                         *)
C10_NonNumberSkipped ==
    tk_pc = "done" =>
        /\ \A j \in DOMAIN input_lines :
              ~IntAccepts(FirstField(input_lines[j])) => NoTraceOf(j)
        /\ Len(tokenized_lines) =
              Cardinality({j \in DOMAIN input_lines : Kept(input_lines[j])})
        /\ \A j \in DOMAIN input_lines :
              (Kept(input_lines[j]) /\ ~HasShape(input_lines[j])) =>
                 \E i \in DOMAIN tokenized_lines :
                    /\ tokenized_lines[i].tokenized_code = <<>>
                    /\ tokenized_lines[i].line_number = ParseInt(input_lines[j])

C10_Witness ==
    /\ tk_pc = "done"
    /\ Len(input_lines) = 3
    /\ Kept(input_lines[1])
    /\ ~IntAccepts(FirstField(input_lines[2])) /\ Strip(input_lines[2]) # <<>>
    /\ Kept(input_lines[3])
    /\ Len(file_bytes) > 10

----------------------------------------------------------------------------
(* The claims on update_line_references and merge_lines.                   *)

\* the jump keyword that stands at p of s outside strings, <<>> when none
JumpWordAt(s, p) ==
    LET kws == {k \in DOMAIN JumpKeywords : KeywordAt(s, p, JumpKeywords[k])} IN
    IF kws = {} THEN <<>> ELSE JumpKeywords[CHOOSE k \in kws : TRUE]

\* the last position of the run of digits that starts at p
RECURSIVE NumberEnd(_, _)
NumberEnd(s, p) ==
    IF p < Len(s) /\ IsDigit(s[p + 1]) THEN NumberEnd(s, p + 1) ELSE p

\* an operand as C11 has it written: its entry of lm when it is a key; when
\* it is none, its own text (asWritten) or its value in decimal
Mapped(text, lm, asWritten) ==
    IF ParseInt(text) \in DOMAIN lm THEN IntToStr(lm[ParseInt(text)])
    ELSE IF asWritten THEN text
    ELSE IntToStr(ParseInt(text))

\* the text of s from p on with every operand mapped once; inRun: p follows
\* a jump keyword through operands, commas, spaces and tabs only
RECURSIVE Rewritten(_, _, _, _, _)
Rewritten(s, p, inRun, lm, asWritten) ==
    IF p > Len(s) THEN <<>>
    ELSE IF inRun /\ IsDigit(s[p])
    THEN LET e == NumberEnd(s, p) IN
         Mapped(SubSeq(s, p, e), lm, asWritten) \o Rewritten(s, e + 1, TRUE, lm, asWritten)
    ELSE IF inRun /\ s[p] \in {",", " ", TAB}
    THEN <<s[p]>> \o Rewritten(s, p + 1, TRUE, lm, asWritten)
    ELSE LET kw == JumpWordAt(s, p) IN
         IF kw = <<>> THEN <<s[p]>> \o Rewritten(s, p + 1, FALSE, lm, asWritten)
         ELSE SubSeq(s, p, p + Len(kw) - 1)
              \o Rewritten(s, p + Len(kw), TRUE, lm, asWritten)

(* C11: reference fixup, as stated. update_line_references replaces each    *)
(* decimal operand after GOTO, GOSUB, THEN or ELSE outside strings by       *)
(* LineMap[operand] when it is a key and leaves it as written when it is    *)
(* not; every other character is returned unchanged and in order, and no    *)
(* operand is mapped twice.                                                 *)
C11_AbsentAsWritten ==
    fx_pc = "returned" => fx_out = Rewritten(fx_code, 1, FALSE, fx_map, TRUE)

(* C11 amended: the same, an operand that is no key being written back as   *)
(* the decimal of its value, without its leading zeros (GOTO 010 with no    *)
(* entry for 10 becomes GOTO 10).                                           *)
C11_AbsentByValue ==
    fx_pc = "returned" => fx_out = Rewritten(fx_code, 1, FALSE, fx_map, FALSE)

\* reached: GOTO 10,20 under a map that sends 10 to 20 and 20 to 30
C11_Witness ==
    /\ fx_pc = "returned"
    /\ fx_code = kwGOTO \o <<"1", "0", ",", "2", "0">>
    /\ fx_map = (10 :> 20) @@ (20 :> 30)
    /\ fx_out = kwGOTO \o <<"2", "0", ",", "3", "0">>

\* pieces joined as one physical line: a colon between two pieces, a space
\* and a colon after a piece that starts with DATA
RECURSIVE JoinedText(_)
JoinedText(pieces) ==
    IF Len(pieces) <= 1 THEN Concat(pieces)
    ELSE LET front == SubSeq(pieces, 1, Len(pieces) - 1)
             prev == pieces[Len(pieces) - 1]
         IN  JoinedText(front)
             \o (IF StartsWith(Upper(prev), kwDATA) THEN <<" ", ":">> ELSE <<":">>)
             \o pieces[Len(pieces)]

\* the length of a physical line: label, a space, the text
PhysicalLength(label, text) == Len(IntToStr(label)) + 1 + Len(text)

\* every emitted segment that joins two or more pieces is within the bound
EmittedWithinBound ==
    \A m \in DOMAIN merged :
        Len(merged[m].src) >= 2 =>
            PhysicalLength(merged[m].start, merged[m].code) <= max_line_length

\* the open segment, once a piece was appended to it, is within the bound
OpenWithinBound ==
    (pc = "merging" /\ Len(current_code) >= 2) =>
        PhysicalLength(current_start_line,
                       JoinedText([k \in DOMAIN current_code |-> current_code[k].code]))
            <= max_line_length

(* C12: merge length bound. Every segment merge_lines emits that joins two  *)
(* or more source pieces has label width + 1 + joined text length <=        *)
(* max_line_length, and a piece is appended to the open segment only if    *)
(* the result stays within that bound.                                      *)
C12_MergeLengthBound == EmittedWithinBound /\ OpenWithinBound

\* merge_lines has read the source lines before position MergedUpTo
MergedUpTo == IF pc = "merging" THEN pos - 1 ELSE Len(packed)

\* the source lines of the pieces emitted so far and of the open segment, in
\* output order
PiecesSoFar ==
    Concat([m \in DOMAIN merged |-> merged[m].src])
    \o (IF pc = "merging" THEN [k \in DOMAIN current_code |-> current_code[k].idx]
        ELSE <<>>)

\* the text of an emitted segment is its pieces' source codes, whole, joined
PiecesWhole ==
    \A m \in DOMAIN merged :
        merged[m].code =
            JoinedText([j \in DOMAIN merged[m].src |-> packed[merged[m].src[j]].code])

(* C13: no truncation or loss in merging. The code pieces of the segments   *)
(* merge_lines emits, in output order, are exactly the input source codes   *)
(* in input order, none dropped, duplicated, reordered or shortened, also   *)
(* when a flush splits an accumulation and when one line alone is too long. *)
C13_NoLoss ==
    pc \in {"merging", "renumber", "fixup", "write", "done"} =>
        /\ PiecesSoFar = [k \in 1..MergedUpTo |-> k]
        /\ PiecesWhole

\* reached: merge_lines has returned an accumulation of three pieces split
\* into an anchor segment and two None-tagged ones
C13_Witness ==
    /\ pc = "renumber"
    /\ Len(merged) = 3
    /\ merged[2].start = NoneTag
    /\ merged[3].start = NoneTag
    /\ merged[3].code = packed[3].code

\* reached: merge_lines has returned a line that alone exceeds the maximum
C13_OverlongAlone ==
    /\ pc = "renumber"
    /\ \E m \in DOMAIN merged :
          /\ Len(merged[m].src) = 1
          /\ merged[m].start # NoneTag
          /\ PhysicalLength(merged[m].start, merged[m].code) > max_line_length

----------------------------------------------------------------------------
(* The claims on the tokenizer's matching and on remove_trailing_quote.    *)

\* the TOKENS entries that match the text of s at p, case-insensitively
MatchingEntries(s, p) ==
    {kw \in TokenWords : StartsWithAt(Upper(s), p - 1, kw)}

\* the longest of them, <<>> when there is none
LongestEntry(s, p) ==
    IF MatchingEntries(s, p) = {} THEN <<>>
    ELSE CHOOSE kw \in MatchingEntries(s, p) :
            \A other \in MatchingEntries(s, p) : Len(other) <= Len(kw)

\* the position of the comment marker: the first ' outside a string, a
\* double quote opening or closing one wherever it stands
MarkerAt(s) ==
    LET marks == {p \in 1..Len(s) : s[p] = SQ /\ Outside(s, p)} IN
    IF marks = {} THEN Len(s) + 1
    ELSE CHOOSE p \in marks : \A q \in marks : p <= q

\* the positions outside a string and before any comment marker
CodePositions(s) ==
    {p \in 1..Len(s) : p < MarkerAt(s) /\ s[p] # DQ /\ Outside(s, p)}

\* the positions a scan from p stops at: past a longest match outside
\* strings, one character on elsewhere, ending at the comment marker
RECURSIVE Visited(_, _)
Visited(s, p) ==
    IF p > Len(s) THEN {}
    ELSE IF p = MarkerAt(s) THEN {p}
    ELSE IF p \in CodePositions(s) /\ LongestEntry(s, p) # <<>>
    THEN {p} \cup Visited(s, p + Len(LongestEntry(s, p)))
    ELSE {p} \cup Visited(s, p + 1)

\* what is returned for the position p is the token of kw, with nothing
\* else but the colon before an ELSE token
TokenFor(p, kw) ==
    \E k \in BytesFor(p) :
        /\ tl_bytes[k] = TOKENS[kw]
        /\ \A j \in BytesFor(p) \ {k} : kw = kwELSE /\ j = k - 1 /\ tl_bytes[j] = 58

\* what is returned for the position p is the character's ASCII byte
RawFor(p) ==
    \E k \in BytesFor(p) : BytesFor(p) = {k} /\ tl_bytes[k] = Ord(tl_code[p])

(* C14: longest-match tokenization. At every position outside a string and  *)
(* before any comment marker tokenize_line emits the token byte of the      *)
(* longest TOKENS entry that matches there, case-insensitively, and         *)
(* advances by its length; when none matches it emits the character's       *)
(* ASCII byte and advances by one.                                          *)
C14_LongestMatch ==
    tl_pc = "returned" =>
        /\ Range(tl_origin) = Visited(tl_code, 1)
        /\ \A p \in Visited(tl_code, 1) \cap CodePositions(tl_code) :
              IF LongestEntry(tl_code, p) # <<>>
              THEN TokenFor(p, LongestEntry(tl_code, p))
              ELSE RawFor(p)

\* the line ends, but for blanks, with a double quote
EndsWithQuote(line) == RStrip(line) # <<>> /\ RStrip(line)[Len(RStrip(line))] = DQ

\* the final quote of a line that ends with one opens a string: the quotes
\* before it pair up
FinalQuoteOpens(line) == EndsWithQuote(line) /\ Outside(line, Len(RStrip(line)))

\* the line up to its final quote
BeforeFinalQuote(line) == SubSeq(line, 1, Len(RStrip(line)) - 1)

(* C15: trailing-quote removal, as stated. remove_trailing_quote removes    *)
(* the line's last double quote when that final quote opens a string never  *)
(* closed before the end of the line, and changes nothing else.             *)
C15_RemovesOpeningQuote ==
    tq_pc = "returned" =>
        tq_out = IF FinalQuoteOpens(tq_line) THEN BeforeFinalQuote(tq_line) ELSE tq_line

(* C15 amended: remove_trailing_quote removes the line's last double quote  *)
(* when that final quote ends the line and closes a string (the quotes of   *)
(* the line pair up), together with any blanks after it; a final quote that *)
(* opens a string stays, and nothing else is changed.                       *)
C15_RemovesClosingQuote ==
    tq_pc = "returned" =>
        tq_out = IF EndsWithQuote(tq_line) /\ ~FinalQuoteOpens(tq_line)
                 THEN BeforeFinalQuote(tq_line) ELSE tq_line

\* reached: PRINT"A" returned as PRINT"A
C15_Witness ==
    /\ tq_pc = "returned"
    /\ tq_line = kwPRINT \o <<DQ, "A", DQ>>
    /\ tq_out = kwPRINT \o <<DQ, "A">>

\* the code ends inside an unterminated string literal: it holds an odd
\* number of double quotes
EndsInOpenString(s) == ~Outside(s, Len(s) + 1)

(* C16: merging never swallows code into an open string literal.            *)
(* merge_lines never appends a source piece after a piece whose code ends   *)
(* inside an unterminated string literal, so every merged piece starts      *)
(* outside any string literal.                                              *)
C16_NoMergeIntoOpenString ==
    \A k \in DOMAIN packed :
        EndsInOpenString(packed[k].code) => ~JoinedToNext(k)

====
